---- MODULE Spec2Model ----
(***************************************************************************)
(* Model of cachelib's RedisCache (src/src/cachelib/redis.py): the codec   *)
(* (dump_object / load_object), timeout normalisation, and the cache       *)
(* operations composed from them over a Redis key-value store.             *)
(*                                                                         *)
(* Byte strings are sequences of one-byte strings; bytes that are not      *)
(* printable ASCII are written "x80", "x04", ...                           *)
(***************************************************************************)
EXTENDS Integers, Sequences, FiniteSets, TLC

(***************************************************************************)
(* Bounds of the model.                                                    *)
(***************************************************************************)
\* integers handled by the cache lie in -MaxInt .. MaxInt
MaxInt == 12
\* longest untagged raw byte string fed to load_object
MaxRawLen == 3
\* longest pickle payload (after the tag byte) fed to load_object
MaxPickleLen == 3
\* largest timeout (seconds) a caller passes or a backend is configured with
MaxTimeout == 1
\* longest key list of get_many / delete_many and largest mapping of set_many
MaxKeys == 2
\* largest delta of inc / dec
MaxDelta == 1
\* largest timeout fed to _normalize_timeout on its own
MaxSeconds == 4

(***************************************************************************)
(* Bytes.                                                                  *)
(***************************************************************************)
DigitChar == <<"0", "1", "2", "3", "4", "5", "6", "7", "8", "9">>

Digits == {DigitChar[i] : i \in 1..10}

\* numeric value of every byte the model uses
ByteVal ==
  [c \in Digits |-> 48 + (CHOOSE i \in 0..9 : DigitChar[i + 1] = c)] @@
  ("x01" :> 1 @@ "x02" :> 2 @@ "x03" :> 3 @@ "x04" :> 4 @@ "x09" :> 9 @@
   " " :> 32 @@ "!" :> 33 @@ "+" :> 43 @@ "-" :> 45 @@ "." :> 46 @@
   "C" :> 67 @@ "N" :> 78 @@ "Z" :> 90 @@ "_" :> 95 @@ "a" :> 97 @@
   "x80" :> 128 @@ "x88" :> 136 @@ "x89" :> 137)

Byte == DOMAIN ByteVal

\* the byte whose value is n
ByteOf(n) == CHOOSE c \in Byte : ByteVal[c] = n

\* all byte strings over alphabet A of length 0..n
RECURSIVE BytesUpTo(_, _)
BytesUpTo(A, n) ==
  IF n = 0 THEN {<<>>}
  ELSE LET S == BytesUpTo(A, n - 1)
       IN  S \cup {Append(s, c) : s \in {x \in S : Len(x) = n - 1}, c \in A}

(***************************************************************************)
(* Python values: exact type plus payload.                                 *)
(***************************************************************************)
PyInt(n) == [t |-> "int", i |-> n, s |-> <<>>]
PyBool(b) == [t |-> "bool", i |-> IF b THEN 1 ELSE 0, s |-> <<>>]
PyNone == [t |-> "NoneType", i |-> 0, s |-> <<>>]
PyBytes(b) == [t |-> "bytes", i |-> 0, s |-> b]
PyStr(s) == [t |-> "str", i |-> 0, s |-> s]
\* an object with the API of redis.Redis
PyClient == [t |-> "Redis", i |-> 0, s |-> <<>>]

\* outcome of a call: a returned value or a raised exception
Ret(v) == [k |-> "ret", v |-> v, exc |-> ""]
Raise(e) == [k |-> "raise", v |-> PyNone, exc |-> e]

(***************************************************************************)
(* str(int).encode("ascii") and int(bytes).                                *)
(***************************************************************************)
RECURSIVE NatStr(_)
NatStr(n) ==
  IF n < 10 THEN <<DigitChar[n + 1]>>
  ELSE NatStr(n \div 10) \o <<DigitChar[(n % 10) + 1]>>

\* str(n).encode("ascii")
IntStr(n) == IF n < 0 THEN <<"-">> \o NatStr(-n) ELSE NatStr(n)

IsSpace(c) == c = " "

RECURSIVE LStrip(_)
LStrip(b) == IF b # <<>> /\ IsSpace(Head(b)) THEN LStrip(Tail(b)) ELSE b

RECURSIVE RStrip(_)
RStrip(b) ==
  IF b # <<>> /\ IsSpace(b[Len(b)]) THEN RStrip(SubSeq(b, 1, Len(b) - 1)) ELSE b

RECURSIVE DigitsVal(_, _)
DigitsVal(b, acc) ==
  IF b = <<>> THEN acc
  ELSE IF Head(b) = "_" THEN DigitsVal(Tail(b), acc)
  ELSE DigitsVal(Tail(b), 10 * acc + (ByteVal[Head(b)] - 48))

\* int(b) for a byte string b: surrounding whitespace is stripped, one sign
\* "+" or "-" is accepted, and digits may be grouped by single underscores;
\* anything else raises ValueError (ok = FALSE)
PyIntParse(b) ==
  LET s == RStrip(LStrip(b))
      signed == s # <<>> /\ Head(s) \in {"+", "-"}
      body == IF signed THEN Tail(s) ELSE s
      wellFormed ==
        /\ body # <<>>
        /\ \A i \in 1..Len(body) : body[i] \in Digits \cup {"_"}
        /\ body[1] \in Digits
        /\ body[Len(body)] \in Digits
        /\ \A i \in 1..(Len(body) - 1) : ~(body[i] = "_" /\ body[i + 1] = "_")
      mag == DigitsVal(body, 0)
  IN  IF wellFormed
      THEN [ok |-> TRUE, n |-> IF signed /\ Head(s) = "-" THEN -mag ELSE mag]
      ELSE [ok |-> FALSE, n |-> 0]

(***************************************************************************)
(* pickle: the generic serializer.  dumps writes the protocol header, one  *)
(* opcode per value and STOP (the FRAME and MEMOIZE opcodes of protocol 4  *)
(* carry no value and are left out).  loads is the unpickler's stack       *)
(* machine over the opcodes PROTO, NONE, NEWTRUE, NEWFALSE, SHORT_BINBYTES,*)
(* POP, POP_MARK, DUP, APPEND and STOP; every other byte is an invalid     *)
(* load key.                                                               *)
(***************************************************************************)
pickle_dumps(v) ==
  <<"x80", "x04">> \o
  (IF v.t = "NoneType" THEN <<"N">>
   ELSE IF v.t = "bool" THEN (IF v.i = 1 THEN <<"x88">> ELSE <<"x89">>)
   ELSE <<"C", ByteOf(Len(v.s))>> \o v.s) \o
  <<".">>

RECURSIVE Unpickle(_, _, _)
Unpickle(b, i, stack) ==
  IF i > Len(b) THEN Raise("EOFError")
  ELSE
    LET c == b[i]
        top == stack[Len(stack)]
    IN  CASE c = "x80" ->
               IF i + 1 > Len(b) THEN Raise("UnpicklingError")
               ELSE IF ByteVal[b[i + 1]] > 5 THEN Raise("ValueError")
               ELSE Unpickle(b, i + 2, stack)
          [] c = "N" -> Unpickle(b, i + 1, Append(stack, PyNone))
          [] c = "x88" -> Unpickle(b, i + 1, Append(stack, PyBool(TRUE)))
          [] c = "x89" -> Unpickle(b, i + 1, Append(stack, PyBool(FALSE)))
          [] c = "C" ->
               IF i + 1 > Len(b) \/ i + 1 + ByteVal[b[i + 1]] > Len(b)
               THEN Raise("UnpicklingError")
               ELSE Unpickle(b, i + 2 + ByteVal[b[i + 1]],
                        Append(stack,
                               PyBytes(SubSeq(b, i + 2, i + 1 + ByteVal[b[i + 1]]))))
          [] c = "0" ->
               IF stack = <<>> THEN Raise("UnpicklingError")
               ELSE Unpickle(b, i + 1, SubSeq(stack, 1, Len(stack) - 1))
          [] c = "1" -> Raise("UnpicklingError")
          [] c = "2" ->
               IF stack = <<>> THEN Raise("UnpicklingError")
               ELSE Unpickle(b, i + 1, Append(stack, top))
          [] c = "a" ->
               IF Len(stack) < 2 THEN Raise("UnpicklingError")
               ELSE Raise("AttributeError")
          [] c = "." ->
               IF stack = <<>> THEN Raise("UnpicklingError") ELSE Ret(top)
          [] OTHER -> Raise("UnpicklingError")

pickle_loads(b) == Unpickle(b, 1, <<>>)

\* the exception classes that derive from pickle.PickleError
PickleError == {"PickleError", "PicklingError", "UnpicklingError"}

(***************************************************************************)
(* The codec of RedisCache.                                                *)
(***************************************************************************)
\* dump_object without the tag byte in front of the pickle
dump_object_untagged(value) ==
  IF value.t = "int" THEN IntStr(value.i) ELSE pickle_dumps(value)

dump_object(value) ==
  IF value.t = "int" THEN IntStr(value.i) ELSE <<"!">> \o pickle_dumps(value)

\* load_object for a byte string (the None case is LoadOptional below)
load_bytes(value) ==
  IF value # <<>> /\ Head(value) = "!"
  THEN LET r == pickle_loads(Tail(value))
       IN  IF r.k = "raise" /\ r.exc \in PickleError THEN Ret(PyNone) ELSE r
  ELSE LET p == PyIntParse(value)
       IN  IF p.ok THEN Ret(PyInt(p.n)) ELSE Ret(PyBytes(value))

\* an optional byte string: what the store's GET answers
Some(b) == [some |-> TRUE, b |-> b]
Nothing == [some |-> FALSE, b |-> <<>>]

load_object(value) == IF ~value.some THEN Ret(PyNone) ELSE load_bytes(value.b)

(***************************************************************************)
(* Timeouts.  A timeout argument is None or an integer.                    *)
(***************************************************************************)
TimeoutNone == [given |-> FALSE, n |-> 0]
TimeoutOf(n) == [given |-> TRUE, n |-> n]

\* BaseCache._normalize_timeout: an omitted timeout is the default timeout
BaseCache_normalize_timeout(default, timeout) ==
  IF ~timeout.given THEN default ELSE timeout.n

\* _normalize_timeout that forwards 0 instead of the no-expiry sentinel
normalize_timeout_keep0(default, timeout) ==
  BaseCache_normalize_timeout(default, timeout)

\* RedisCache._normalize_timeout
normalize_timeout(default, timeout) ==
  LET t == BaseCache_normalize_timeout(default, timeout)
  IN  IF t = 0 THEN -1 ELSE t

(***************************************************************************)
(* State.                                                                  *)
(***************************************************************************)
VARIABLES
  store,            \* the Redis database: physical key -> [val, ttl]
  key_prefix,       \* self.key_prefix
  default_timeout,  \* self.default_timeout
  op,               \* name of the call that has just finished, or "idle"
  args,             \* its arguments
  result,           \* its outcome
  calls,            \* the commands it sent to the store, in order
  written,          \* logical key -> the value of a set not yet superseded
  client,           \* whether the backend holds a store client (self._client)
  adds              \* caller -> the add call the caller is in the middle of

vars == <<store, key_prefix, default_timeout, op, args, result, calls, written,
          client, adds>>

\* logical keys callers use and the prefixes a backend is configured with
LogicalKeys == {<<"a">>, <<"b">>}
Prefixes == {<<>>, <<"p", ":">>}

\* integers stored and counted in the cache lie in -MaxCount .. MaxCount
MaxCount == 1

\* values callers store
Values == {PyInt(1 - MaxCount), PyBool(TRUE)}

\* payloads written to the store by other clients: a tag byte with nothing
\* after it, a tag byte with a truncated pickle, and a legacy untagged payload
RawPayloads == {<<"!">>, <<"!", "x80">>, <<"+", "1">>}

\* timeouts callers pass: omitted, 0 for never expire, or seconds
Timeouts == {TimeoutNone} \cup {TimeoutOf(n) : n \in 0..MaxTimeout}

\* key lists of the *_many operations
RECURSIVE SeqsUpTo(_, _)
SeqsUpTo(S, n) ==
  IF n = 0 THEN {<<>>}
  ELSE LET R == SeqsUpTo(S, n - 1)
       IN  R \cup {Append(r, x) : r \in {y \in R : Len(y) = n - 1}, x \in S}

KeyLists == SeqsUpTo(LogicalKeys, MaxKeys)

\* a dict as the sequence of its items in insertion order: keys are distinct
Mappings ==
  {m \in SeqsUpTo(LogicalKeys \X Values, MaxKeys) :
     \A i, j \in 1..Len(m) : i # j => m[i][1] # m[j][1]}

\* the record of a call
Args(keys, vals, timeout, delta) ==
  [keys |-> keys, vals |-> vals, timeout |-> timeout, delta |-> delta]
NoArgs == Args(<<>>, <<>>, TimeoutNone, 0)

RetVal(x) == [k |-> "ret", exc |-> "", list |-> FALSE, v |-> <<x>>]
RetList(xs) == [k |-> "ret", exc |-> "", list |-> TRUE, v |-> xs]
Raised(e) == [k |-> "raise", exc |-> e, list |-> FALSE, v |-> <<>>]
NoResult == [k |-> "none", exc |-> "", list |-> FALSE, v |-> <<>>]

\* a command sent to the store
Call(cmd, keys, value, time) ==
  [cmd |-> cmd, keys |-> keys, value |-> value, time |-> time]

(***************************************************************************)
(* The Redis commands the backend uses, as functions of the database s.    *)
(* An entry's ttl is -1 when it has no expiry, else the seconds left.      *)
(***************************************************************************)
NoExpiry == -1

Entry(val, ttl) == [val |-> val, ttl |-> ttl]

Remove(s, ks) == [k \in (DOMAIN s) \ ks |-> s[k]]
Put(s, k, e) == [x \in (DOMAIN s) \cup {k} |-> IF x = k THEN e ELSE s[x]]

redis_get(s, k) == IF k \in DOMAIN s THEN Some(s[k].val) ELSE Nothing
redis_mget(s, ks) == [i \in 1..Len(ks) |-> redis_get(s, ks[i])]

\* SET: stores the value and discards any expiry
redis_set(s, k, v) == [s |-> Put(s, k, Entry(v, NoExpiry)), reply |-> RetVal(PyBool(TRUE))]

\* SETEX: a non-positive time is rejected
redis_setex(s, k, v, time) ==
  IF time <= 0 THEN [s |-> s, reply |-> Raised("ResponseError")]
  ELSE [s |-> Put(s, k, Entry(v, time)), reply |-> RetVal(PyBool(TRUE))]

redis_setnx(s, k, v) ==
  IF k \in DOMAIN s THEN [s |-> s, reply |-> RetVal(PyBool(FALSE))]
  ELSE [s |-> Put(s, k, Entry(v, NoExpiry)), reply |-> RetVal(PyBool(TRUE))]

\* EXPIRE: a missing key answers false; a non-positive time deletes the key
redis_expire(s, k, time) ==
  IF k \notin DOMAIN s THEN [s |-> s, reply |-> RetVal(PyBool(FALSE))]
  ELSE IF time <= 0 THEN [s |-> Remove(s, {k}), reply |-> RetVal(PyBool(TRUE))]
  ELSE [s |-> Put(s, k, Entry(s[k].val, time)), reply |-> RetVal(PyBool(TRUE))]

Range(f) == {f[i] : i \in DOMAIN f}

\* DEL: answers the number of keys removed; it takes at least one key
redis_delete(s, ks) ==
  IF ks = <<>> THEN [s |-> s, reply |-> Raised("ResponseError")]
  ELSE [s |-> Remove(s, Range(ks)),
        reply |-> RetVal(PyInt(Cardinality(Range(ks) \cap DOMAIN s)))]

redis_exists(s, k) == RetVal(PyInt(IF k \in DOMAIN s THEN 1 ELSE 0))

\* the payloads INCRBY accepts: canonical decimal text
RedisIsInt(b) == LET p == PyIntParse(b) IN p.ok /\ IntStr(p.n) = b

\* INCRBY of a store that counts a payload that is no integer as 0
redis_incr_coercing(s, k, amount) ==
  LET n == IF k \in DOMAIN s /\ RedisIsInt(s[k].val)
           THEN PyIntParse(s[k].val).n + amount ELSE amount
  IN  [s |-> Put(s, k, Entry(IntStr(n), NoExpiry)), reply |-> RetVal(PyInt(n))]

\* INCRBY: a missing key counts from 0 and gets no expiry; an existing one
\* keeps its ttl; a payload that is not an integer is an error
redis_incr(s, k, amount) ==
  IF k \notin DOMAIN s
  THEN [s |-> Put(s, k, Entry(IntStr(amount), NoExpiry)),
        reply |-> RetVal(PyInt(amount))]
  ELSE IF ~RedisIsInt(s[k].val) THEN [s |-> s, reply |-> Raised("ResponseError")]
  ELSE LET n == PyIntParse(s[k].val).n + amount
       IN  [s |-> Put(s, k, Entry(IntStr(n), s[k].ttl)), reply |-> RetVal(PyInt(n))]

\* the glob matching of KEYS: '*' matches any run of characters, '?' any
\* one character, '[' opens a class of characters that ends at ']' or, when
\* no ']' follows, at the end of the pattern; any other character matches
\* itself.  (Negated classes, ranges and escapes need '^', '-' and '\',
\* which no key of the model contains.)
RECURSIVE GlobMatch(_, _)
GlobMatch(p, str) ==
  IF p = <<>> THEN str = <<>>
  ELSE IF Head(p) = "*"
  THEN \E i \in 0..Len(str) : GlobMatch(Tail(p), SubSeq(str, i + 1, Len(str)))
  ELSE IF str = <<>> THEN FALSE
  ELSE IF Head(p) = "?" THEN GlobMatch(Tail(p), Tail(str))
  ELSE IF Head(p) = "["
  THEN LET body == Tail(p)
           closing == {i \in 1..Len(body) : body[i] = "]"}
           close == IF closing = {} THEN Len(body) + 1
                    ELSE CHOOSE i \in closing : \A j \in closing : i <= j
           members == {body[i] : i \in 1..(close - 1)}
           rest == SubSeq(body, close + 1, Len(body))
       IN  Head(str) \in members /\ GlobMatch(rest, Tail(str))
  ELSE Head(p) = Head(str) /\ GlobMatch(Tail(p), Tail(str))

\* KEYS: the keys of the database that match the pattern
redis_keys(s, pattern) == {k \in DOMAIN s : GlobMatch(pattern, k)}

\* FLUSHDB: empties the database
redis_flushdb(s) ==
  [s |-> Remove(s, DOMAIN s), reply |-> RetVal(PyBool(TRUE))]

(***************************************************************************)
(* The backend.                                                            *)
(***************************************************************************)
\* the logical key sent as it is
PhysKey_bare(prefix, key) == key

\* self.key_prefix + key
PhysKey(prefix, key) == prefix \o key

\* the key list of get_many / delete_many sent without the prefix
prefixed_keys_bare(prefix, keys) == keys

\* prefixed_keys of get_many / delete_many
prefixed_keys(prefix, keys) ==
  IF prefix # <<>> THEN [i \in 1..Len(keys) |-> prefix \o keys[i]]
  ELSE [i \in 1..Len(keys) |-> keys[i]]

Dead == [live |-> FALSE, v |-> PyNone]
Live(v) == [live |-> TRUE, v |-> v]

\* the bookkeeping of `written` once the physical keys pks were written,
\* deleted or expired by something other than the set that recorded them
Forget(w, pks) ==
  [k \in LogicalKeys |-> IF PhysKey(key_prefix, k) \in pks THEN Dead ELSE w[k]]

\* the outcome of a codec call as the outcome of the operation
Outcome(r) == IF r.k = "ret" THEN RetVal(r.v) ELSE Raised(r.exc)

\* callers that run add at the same time as the calls of the others
MaxCallers == 2
Callers == 1..MaxCallers

\* an add that has not sent its first command
NotStarted ==
  [pc |-> "start", pk |-> <<>>, value |-> PyNone, t |-> 0,
   created |-> FALSE, ret |-> FALSE, mine |-> FALSE]
NoAdds == [x \in Callers |-> NotStarted]

\* the bookkeeping of `mine`: the entry an add has created stops being its
\* own when a set or delete command of another call names its key
Disowned(a, c) ==
  [x \in Callers |->
     IF /\ a[x].mine
        /\ \E i \in 1..Len(c) : /\ c[i].cmd \in {"SET", "SETEX", "DEL"}
                                 /\ a[x].pk \in Range(c[i].keys)
     THEN [a[x] EXCEPT !.mine = FALSE]
     ELSE a[x]]

\* the state after a step: the record of the call and the store
Becomes(o, a, r, c, s, w) ==
  /\ op' = o
  /\ args' = a
  /\ result' = r
  /\ calls' = c
  /\ store' = s
  /\ written' = w
  /\ adds' = Disowned(adds, c)
  /\ UNCHANGED <<key_prefix, default_timeout, client>>

\* a step that does not go through self._client: a step of the environment,
\* or a call that returns before it reaches the client.  It starts when no
\* call is in progress (calls are synchronous).
Step(o, a, r, c, s, w) == op = "idle" /\ Becomes(o, a, r, c, s, w)

\* a call that reads self._client: on a backend that never assigned the
\* attribute the read raises AttributeError and nothing is sent to the store
Finish(o, a, r, c, s, w) ==
  /\ op = "idle"
  /\ IF client THEN Becomes(o, a, r, c, s, w)
     ELSE Becomes(o, a, Raised("AttributeError"), <<>>, store, written)

EmptyStore == [k \in {} |-> Entry(<<>>, NoExpiry)]

Init ==
  /\ store = EmptyStore
  /\ key_prefix \in Prefixes
  /\ default_timeout \in 0..MaxTimeout
  /\ op = "idle"
  /\ args = NoArgs
  /\ result = NoResult
  /\ calls = <<>>
  /\ written = [k \in LogicalKeys |-> Dead]
  /\ client = TRUE
  /\ adds = NoAdds

\* get(key)
Get(key) ==
  LET pk == PhysKey(key_prefix, key)
  IN  Finish("get", Args(<<key>>, <<>>, TimeoutNone, 0),
             Outcome(load_object(redis_get(store, pk))),
             <<Call("GET", <<pk>>, <<>>, 0)>>, store, written)

\* the first exception among decoded results, if any
FirstRaise(rs) ==
  IF \E i \in 1..Len(rs) : rs[i].k = "raise"
  THEN LET i == CHOOSE j \in 1..Len(rs) :
                  rs[j].k = "raise" /\ \A h \in 1..(j - 1) : rs[h].k = "ret"
       IN  Raised(rs[i].exc)
  ELSE RetList([i \in 1..Len(rs) |-> rs[i].v])

\* get_many(*keys): MGET with no keys is answered with the empty list
GetMany(keys) ==
  LET pks == prefixed_keys(key_prefix, keys)
      replies == redis_mget(store, pks)
      decoded == [i \in 1..Len(replies) |-> load_object(replies[i])]
  IN  Finish("get_many", Args(keys, <<>>, TimeoutNone, 0),
             FirstRaise(decoded),
             <<Call("MGET", pks, <<>>, 0)>>, store, written)

\* set(key, value, timeout)
\* set that never asks for an expiry: a plain SET whatever the timeout
Set_plain(key, value, timeout) ==
  LET dump == dump_object(value)
      pk == PhysKey(key_prefix, key)
      r == redis_set(store, pk, dump)
  IN  Finish("set", Args(<<key>>, <<value>>, timeout, 0), r.reply,
             <<Call("SET", <<pk>>, dump, NoExpiry)>>, r.s,
             IF r.reply.k = "ret" THEN [written EXCEPT ![key] = Live(value)]
             ELSE written)

Set(key, value, timeout) ==
  LET t == normalize_timeout(default_timeout, timeout)
      dump == dump_object(value)
      pk == PhysKey(key_prefix, key)
      r == IF t = -1 THEN redis_set(store, pk, dump)
           ELSE redis_setex(store, pk, dump, t)
      c == IF t = -1 THEN Call("SET", <<pk>>, dump, NoExpiry)
           ELSE Call("SETEX", <<pk>>, dump, t)
  IN  Finish("set", Args(<<key>>, <<value>>, timeout, 0), r.reply, <<c>>, r.s,
             IF r.reply.k = "ret" THEN [written EXCEPT ![key] = Live(value)]
             ELSE written)

\* add that sends EXPIRE whatever SETNX answered
Add_always_expire(key, value, timeout) ==
  LET t == normalize_timeout(default_timeout, timeout)
      dump == dump_object(value)
      pk == PhysKey(key_prefix, key)
      r1 == redis_setnx(store, pk, dump)
      r2 == redis_expire(r1.s, pk, t)
  IN  Finish("add", Args(<<key>>, <<value>>, timeout, 0),
             IF r1.reply.v[1] = PyBool(TRUE) THEN r2.reply ELSE r1.reply,
             <<Call("SETNX", <<pk>>, dump, NoExpiry), Call("EXPIRE", <<pk>>, <<>>, t)>>,
             r2.s, Forget(written, {pk}))

\* add(key, value, timeout): SETNX and, only when it answered true, EXPIRE
Add(key, value, timeout) ==
  LET t == normalize_timeout(default_timeout, timeout)
      dump == dump_object(value)
      pk == PhysKey(key_prefix, key)
      r1 == redis_setnx(store, pk, dump)
      c1 == Call("SETNX", <<pk>>, dump, NoExpiry)
      r2 == redis_expire(r1.s, pk, t)
      c2 == Call("EXPIRE", <<pk>>, <<>>, t)
  IN  IF r1.reply.v[1] = PyBool(TRUE)
      THEN Finish("add", Args(<<key>>, <<value>>, timeout, 0), r2.reply,
                  <<c1, c2>>, r2.s, Forget(written, {pk}))
      ELSE Finish("add", Args(<<key>>, <<value>>, timeout, 0), r1.reply,
                  <<c1>>, r1.s, written)

\* pipeline commands that drop the expiry: a plain SET for every entry
PipeCommands_plain(prefix, mapping, t) ==
  [i \in 1..Len(mapping) |->
     Call("SET", <<PhysKey(prefix, mapping[i][1])>>,
          dump_object(mapping[i][2]), NoExpiry)]

\* the commands set_many queues on the pipeline, in the mapping's order
PipeCommands(prefix, mapping, t) ==
  [i \in 1..Len(mapping) |->
     IF t = -1
     THEN Call("SET", <<PhysKey(prefix, mapping[i][1])>>,
               dump_object(mapping[i][2]), NoExpiry)
     ELSE Call("SETEX", <<PhysKey(prefix, mapping[i][1])>>,
               dump_object(mapping[i][2]), t)]

\* a pipeline that gives up at the first command the store refuses: the
\* commands queued after it are not applied
RECURSIVE PipeExecute_stop(_, _, _, _)
PipeExecute_stop(s, cmds, replies, refused) ==
  IF cmds = <<>> THEN [s |-> s, replies |-> replies]
  ELSE LET c == Head(cmds)
           r == IF \E i \in refused : i <= Len(replies) + 1
                THEN [s |-> s, reply |-> Raised("ResponseError")]
                ELSE IF c.cmd = "SET" THEN redis_set(s, c.keys[1], c.value)
                ELSE redis_setex(s, c.keys[1], c.value, c.time)
       IN  PipeExecute_stop(r.s, Tail(cmds), Append(replies, r.reply), refused)

\* pipe.execute() without a transaction: every queued command is applied in
\* order, whatever the others answer; the store answers the commands at the
\* positions `refused` with an error (out of memory, read-only replica)
RECURSIVE PipeExecute(_, _, _, _)
PipeExecute(s, cmds, replies, refused) ==
  IF cmds = <<>> THEN [s |-> s, replies |-> replies]
  ELSE LET c == Head(cmds)
           r == IF Len(replies) + 1 \in refused
                THEN [s |-> s, reply |-> Raised("ResponseError")]
                ELSE IF c.cmd = "SET" THEN redis_set(s, c.keys[1], c.value)
                ELSE redis_setex(s, c.keys[1], c.value, c.time)
       IN  PipeExecute(r.s, Tail(cmds), Append(replies, r.reply), refused)

\* set_many(mapping, timeout) while the store refuses the commands at the
\* positions `refused`: execute() raises the first error reply
SetManyRefusing(mapping, timeout, refused) ==
  LET t == normalize_timeout(default_timeout, timeout)
      cmds == PipeCommands(key_prefix, mapping, t)
      r == PipeExecute(store, cmds, <<>>, refused)
      failed == {i \in 1..Len(cmds) : r.replies[i].k = "raise"}
      res == IF failed = {}
             THEN RetList([i \in 1..Len(cmds) |-> r.replies[i].v[1]])
             ELSE Raised(r.replies[CHOOSE i \in failed : \A j \in failed : i <= j].exc)
      w == [k \in LogicalKeys |->
              IF \E i \in 1..Len(mapping) : mapping[i][1] = k /\ i \notin failed
              THEN Live(mapping[CHOOSE i \in 1..Len(mapping) : mapping[i][1] = k][2])
              ELSE written[k]]
  IN  Finish("set_many",
             Args([i \in 1..Len(mapping) |-> mapping[i][1]],
                  [i \in 1..Len(mapping) |-> mapping[i][2]], timeout, 0),
             res, cmds, r.s, w)

\* set_many(mapping, timeout) on a store that accepts every command
SetMany(mapping, timeout) == SetManyRefusing(mapping, timeout, {})

\* delete(key)
Delete(key) ==
  LET pk == PhysKey(key_prefix, key)
      r == redis_delete(store, <<pk>>)
  IN  Finish("delete", Args(<<key>>, <<>>, TimeoutNone, 0), r.reply,
             <<Call("DEL", <<pk>>, <<>>, 0)>>, r.s, Forget(written, {pk}))

\* delete_many without the early return for an empty key list
DeleteMany_unguarded(keys) ==
  LET pks == prefixed_keys(key_prefix, keys)
      r == redis_delete(store, pks)
  IN  Finish("delete_many", Args(keys, <<>>, TimeoutNone, 0), r.reply,
             <<Call("DEL", pks, <<>>, 0)>>, r.s, Forget(written, Range(pks)))

\* delete_many(*keys)
DeleteMany(keys) ==
  IF keys = <<>>
  THEN Step("delete_many", Args(keys, <<>>, TimeoutNone, 0), RetVal(PyNone),
            <<>>, store, written)
  ELSE LET pks == prefixed_keys(key_prefix, keys)
           r == redis_delete(store, pks)
       IN  Finish("delete_many", Args(keys, <<>>, TimeoutNone, 0), r.reply,
                  <<Call("DEL", pks, <<>>, 0)>>, r.s, Forget(written, Range(pks)))

\* has(key)
Has(key) ==
  LET pk == PhysKey(key_prefix, key)
  IN  Finish("has", Args(<<key>>, <<>>, TimeoutNone, 0), redis_exists(store, pk),
             <<Call("EXISTS", <<pk>>, <<>>, 0)>>, store, written)

\* inc(key, delta) and dec(key, delta); counts stay within the model's range
IncrBy(name, key, delta, amount) ==
  LET pk == PhysKey(key_prefix, key)
      r == redis_incr(store, pk, amount)
  IN  /\ r.reply.k = "ret" => r.reply.v[1].i \in -MaxCount..MaxCount
      /\ Finish(name, Args(<<key>>, <<>>, TimeoutNone, delta), r.reply,
                <<Call("INCRBY", <<pk>>, <<>>, amount)>>, r.s,
                IF r.reply.k = "ret" THEN Forget(written, {pk}) ELSE written)

\* inc that applies the timeout normalisation and sends EXPIRE after INCRBY
Inc_expiring(key, delta) ==
  LET pk == PhysKey(key_prefix, key)
      t == normalize_timeout(default_timeout, TimeoutNone)
      r == redis_incr(store, pk, delta)
      e == redis_expire(r.s, pk, t)
  IN  /\ r.reply.k = "ret" => r.reply.v[1].i \in -MaxCount..MaxCount
      /\ Finish("inc", Args(<<key>>, <<>>, TimeoutNone, delta), r.reply,
                <<Call("INCRBY", <<pk>>, <<>>, delta),
                  Call("EXPIRE", <<pk>>, <<>>, t)>>, e.s,
                Forget(written, {pk}))

Inc(key, delta) == IncrBy("inc", key, delta, delta)

\* dec that forgets to negate delta
Dec_plus(key, delta) == IncrBy("dec", key, delta, delta)

Dec(key, delta) == IncrBy("dec", key, delta, -delta)

\* the orders in which a reply can list the keys of a set
Orderings(S) == {q \in [1..Cardinality(S) -> S] : Range(q) = S}

Clear ==
  IF key_prefix # <<>>
  THEN LET pattern == key_prefix \o <<"*">>
           keys == redis_keys(store, pattern)
           c1 == Call("KEYS", <<pattern>>, <<>>, NoExpiry)
       IN  IF keys # {}
           THEN \E ks \in Orderings(keys) :
                   LET r == redis_delete(store, ks)
                   IN  Finish("clear", NoArgs, r.reply,
                              <<c1, Call("DEL", ks, <<>>, NoExpiry)>>, r.s,
                              Forget(written, keys))
           ELSE Finish("clear", NoArgs, RetVal(PyInt(0)), <<c1>>, store, written)
  ELSE LET r == redis_flushdb(store)
       IN  Finish("clear", NoArgs, r.reply,
                  <<Call("FLUSHDB", <<>>, <<>>, NoExpiry)>>, r.s,
                  Forget(written, DOMAIN store))

(***************************************************************************)
(* The environment: time passes, and other clients of the same database    *)
(* write payloads of their own.                                            *)
(***************************************************************************)
Tick ==
  LET expired == {k \in DOMAIN store : store[k].ttl = 1}
      s == [k \in (DOMAIN store) \ expired |->
              IF store[k].ttl = NoExpiry THEN store[k]
              ELSE Entry(store[k].val, store[k].ttl - 1)]
  IN  /\ \E k \in DOMAIN store : store[k].ttl # NoExpiry
      /\ Step("idle", NoArgs, NoResult, <<>>, s, Forget(written, expired))

\* the physical keys of this backend's namespace
OwnKeys == {PhysKey(key_prefix, k) : k \in LogicalKeys}

RawWrite(pk, b) ==
  Step("idle", NoArgs, NoResult, <<>>, Put(store, pk, Entry(b, NoExpiry)),
       Forget(written, {pk}))

\* the call returns: calls are synchronous and the backend keeps nothing of
\* a finished call, so the next call starts from the store alone
Return ==
  /\ op \notin {"idle", "new"}
  /\ op = "__init__" => result.k = "ret"
  /\ Becomes("idle", NoArgs, NoResult, <<>>, store, written)

Next ==
  \/ \E k \in LogicalKeys : Get(k)
  \/ \E ks \in KeyLists : GetMany(ks)
  \/ \E k \in LogicalKeys, v \in Values, t \in Timeouts : Set(k, v, t)
  \/ \E k \in LogicalKeys, v \in Values, t \in Timeouts : Add(k, v, t)
  \/ \E m \in Mappings, t \in Timeouts : SetMany(m, t)
  \/ \E k \in LogicalKeys : Delete(k)
  \/ \E ks \in KeyLists : DeleteMany(ks)
  \/ \E k \in LogicalKeys : Has(k)
  \/ \E k \in LogicalKeys, d \in 1..MaxDelta : Inc(k, d)
  \/ \E k \in LogicalKeys, d \in 1..MaxDelta : Dec(k, d)
  \/ Clear
  \/ Tick
  \/ \E pk \in OwnKeys, b \in RawPayloads : RawWrite(pk, b)
  \/ Return

Spec == Init /\ [][Next]_vars

(***************************************************************************)
(* clear on a database that other namespaces share: the prefix may hold    *)
(* characters that KEYS reads as a pattern, and other clients keep keys    *)
(* outside the namespace.                                                  *)
(***************************************************************************)
ClearPrefixes == {<<"p", ":">>, <<"p", "?">>, <<"p", "[">>}
ForeignKeys == {<<"q", ":", "a">>, <<"p", "x", "a">>}

InitClear ==
  /\ store = EmptyStore
  /\ key_prefix \in ClearPrefixes
  /\ default_timeout \in 0..MaxTimeout
  /\ op = "idle"
  /\ args = NoArgs
  /\ result = NoResult
  /\ calls = <<>>
  /\ written = [k \in LogicalKeys |-> Dead]
  /\ client = TRUE
  /\ adds = NoAdds

\* another client writes a key outside this backend's namespace
ForeignWrite(fk, b) ==
  Step("idle", NoArgs, NoResult, <<>>, Put(store, fk, Entry(b, NoExpiry)),
       written)

NextClear ==
  \/ Clear
  \/ \E k \in LogicalKeys, v \in Values, t \in Timeouts : Set(k, v, t)
  \/ \E fk \in ForeignKeys, b \in RawPayloads : ForeignWrite(fk, b)
  \/ Return

SpecClear == InitClear /\ [][NextClear]_vars

(***************************************************************************)
(* set_many on a store that refuses some commands of the batch.            *)
(***************************************************************************)
\* the positions of a batch the store may refuse: at least one
Refusals(mapping) == (SUBSET (1..Len(mapping))) \ {{}}

NextFail ==
  \/ \E m \in Mappings, t \in Timeouts :
        \E refused \in Refusals(m) : SetManyRefusing(m, t, refused)
  \/ \E m \in Mappings, t \in Timeouts : SetMany(m, t)
  \/ \E k \in LogicalKeys : Get(k)
  \/ \E k \in LogicalKeys : Delete(k)
  \/ Return

SpecFail == Init /\ [][NextFail]_vars

(***************************************************************************)
(* add as the two commands it sends, SETNX and then EXPIRE, so that the    *)
(* commands of other callers come between them.                            *)
(***************************************************************************)
\* the key the callers compete for
RaceKeys == {<<"a">>}

\* the first command of add that writes with SET: it never finds the key
\* taken
AddSetnx_set(x, key, value, timeout) ==
  LET t == normalize_timeout(default_timeout, timeout)
      pk == PhysKey(key_prefix, key)
      r == redis_set(store, pk, dump_object(value))
  IN  /\ op = "idle"
      /\ client
      /\ adds[x].pc = "start"
      /\ store' = r.s
      /\ written' = Forget(written, {pk})
      /\ adds' = [adds EXCEPT ![x] =
                    [pc |-> "expire", pk |-> pk, value |-> value, t |-> t,
                     created |-> TRUE, ret |-> FALSE, mine |-> TRUE]]
      /\ UNCHANGED <<key_prefix, default_timeout, client, op, args, result,
                     calls>>

\* the first half of add(key, value, timeout) by caller x: the timeout is
\* normalised, the value encoded and SETNX sent; when SETNX answers false
\* the `and` returns it and the call is over
AddSetnx(x, key, value, timeout) ==
  LET t == normalize_timeout(default_timeout, timeout)
      pk == PhysKey(key_prefix, key)
      r == redis_setnx(store, pk, dump_object(value))
      created == r.reply.v[1] = PyBool(TRUE)
  IN  /\ op = "idle"
      /\ client
      /\ adds[x].pc = "start"
      /\ store' = r.s
      /\ written' = IF created THEN Forget(written, {pk}) ELSE written
      /\ adds' = [adds EXCEPT ![x] =
                    [pc |-> IF created THEN "expire" ELSE "done",
                     pk |-> pk, value |-> value, t |-> t,
                     created |-> created, ret |-> FALSE, mine |-> created]]
      /\ UNCHANGED <<key_prefix, default_timeout, client, op, args, result,
                     calls>>

\* the second half of add by caller x: EXPIRE is sent and its answer returned
AddExpire(x) ==
  LET r == redis_expire(store, adds[x].pk, adds[x].t)
  IN  /\ op = "idle"
      /\ adds[x].pc = "expire"
      /\ store' = r.s
      /\ written' = Forget(written, {adds[x].pk})
      /\ adds' = [adds EXCEPT ![x].pc = "done",
                              ![x].ret = (r.reply.v[1] = PyBool(TRUE)),
                              ![x].mine = FALSE]
      /\ UNCHANGED <<key_prefix, default_timeout, client, op, args, result,
                     calls>>

\* callers that add the same key and nothing else
NextAddRace ==
  \/ \E x \in Callers, k \in RaceKeys, v \in Values, t \in Timeouts :
        AddSetnx(x, k, v, t)
  \/ \E x \in Callers : AddExpire(x)

SpecAddRace == Init /\ [][NextAddRace]_vars

\* callers that add a key while other callers set and delete it
NextRace ==
  \/ \E x \in Callers, k \in RaceKeys, v \in Values, t \in Timeouts :
        AddSetnx(x, k, v, t)
  \/ \E x \in Callers : AddExpire(x)
  \/ \E k \in RaceKeys, v \in Values, t \in Timeouts : Set(k, v, t)
  \/ \E k \in RaceKeys : Delete(k)
  \/ Return

SpecRace == Init /\ [][NextRace]_vars

(***************************************************************************)
(* Construction.  The initial state holds the arguments of the call: the   *)
(* host, the decode_responses option, key_prefix and default_timeout, and  *)
(* whether the redis module can be imported.                               *)
(***************************************************************************)
Hosts == {PyNone, PyStr(<<"h">>), PyClient}
DecodeResponses == {PyNone, PyBool(FALSE), PyBool(TRUE)}
PrefixArgs == {PyNone} \cup {PyStr(p) : p \in Prefixes}

\* vals holds <<host, decode_responses, key_prefix>>, timeout the
\* default_timeout, and delta is 1 when `import redis` succeeds
ConstructorArgs ==
  {Args(<<>>, <<h, d, p>>, TimeoutOf(n), i) :
     h \in Hosts, d \in DecodeResponses, p \in PrefixArgs,
     n \in 0..MaxTimeout, i \in {0, 1}}

\* the truth value `if` gives the values of the model
Truthy(v) == v.i # 0 \/ v.s # <<>>

InitConstruct ==
  /\ store = EmptyStore
  /\ key_prefix = <<>>
  /\ default_timeout = 0
  /\ op = "new"
  /\ args \in ConstructorArgs
  /\ result = NoResult
  /\ calls = <<>>
  /\ written = [k \in LogicalKeys |-> Dead]
  /\ client = FALSE
  /\ adds = NoAdds

\* RedisCache(host, default_timeout=..., key_prefix=..., **kwargs)
Construct ==
  LET host == args.vals[1]
      decode_responses == args.vals[2]
      prefix == args.vals[3]
      outcome == IF host = PyNone THEN "ValueError"
                 ELSE IF host.t # "str" THEN "ok"
                 ELSE IF args.delta = 0 THEN "RuntimeError"
                 ELSE IF Truthy(decode_responses) THEN "ValueError"
                 ELSE "ok"
  IN  /\ op = "new"
      /\ op' = "__init__"
      /\ args' = args
      /\ result' = IF outcome = "ok" THEN RetVal(PyNone) ELSE Raised(outcome)
      /\ calls' = <<>>
      /\ default_timeout' = args.timeout.n
      /\ client' = (outcome = "ok" /\ host.t = "str")
      /\ key_prefix' = IF outcome = "ok" /\ Truthy(prefix) THEN prefix.s
                       ELSE <<>>
      /\ UNCHANGED <<store, written, adds>>

NextConstruct ==
  \/ Construct
  \/ \E k \in LogicalKeys : Get(k)
  \/ \E k \in LogicalKeys, v \in Values, t \in Timeouts : Set(k, v, t)
  \/ Return

SpecConstruct == InitConstruct /\ [][NextConstruct]_vars

(***************************************************************************)
(* The codec and the timeout normalisation on their own: the initial state *)
(* holds one input, and the calls apply the functions to it.  load_object  *)
(* also runs on what dump_object has just returned.                        *)
(***************************************************************************)
\* values handed to dump_object
CodecValues ==
  {PyInt(n) : n \in -MaxInt..MaxInt} \cup
  {PyBool(TRUE), PyBool(FALSE), PyNone} \cup
  {PyBytes(b) : b \in {<<"4", "2">>, <<"-", "7">>, <<"!", "4">>, <<"!">>, <<"a">>}}

\* the bytes of untagged payloads and of pickle payloads
RawAlphabet == {"0", "4", "2", "-", "+", " ", "_", "a"}
PickleAlphabet == {"x80", "x04", "x09", "N", "x88", "C", "x01", ".", "0", "2", "a", "Z"}

\* byte strings handed to load_object: untagged ones and tagged ones
CodecBytes ==
  BytesUpTo(RawAlphabet, MaxRawLen) \cup
  {<<"!">> \o b : b \in BytesUpTo(PickleAlphabet, MaxPickleLen)}

CodecInputs ==
  {Args(<<>>, <<v>>, TimeoutNone, 0) : v \in CodecValues} \cup
  {Args(<<>>, <<PyBytes(b)>>, TimeoutNone, 0) : b \in CodecBytes} \cup
  {Args(<<>>, <<>>, t, 0) :
     t \in {TimeoutNone} \cup {TimeoutOf(n) : n \in 0..MaxSeconds}}

InitCodec ==
  /\ store = EmptyStore
  /\ key_prefix \in Prefixes
  /\ default_timeout \in 0..MaxSeconds
  /\ op = "input"
  /\ args \in CodecInputs
  /\ result = NoResult
  /\ calls = <<>>
  /\ written = [k \in LogicalKeys |-> Dead]
  /\ client = TRUE
  /\ adds = NoAdds

\* dump_object(value)
DumpObject ==
  /\ op = "input"
  /\ args.vals # <<>>
  /\ args.vals[1] \in CodecValues
  /\ Becomes("dump_object", args, RetVal(PyBytes(dump_object(args.vals[1]))),
            <<>>, store, written)

\* load_object(value), value being None or a byte string
LoadObject ==
  \E input \in (IF op = "input" THEN Range(args.vals)
                ELSE IF op = "dump_object" THEN {result.v[1]} ELSE {}) :
    /\ input.t \in {"bytes", "NoneType"}
    /\ Becomes("load_object", Args(<<>>, <<input>>, TimeoutNone, 0),
              Outcome(load_object(IF input.t = "NoneType" THEN Nothing
                                  ELSE Some(input.s))),
              <<>>, store, written)

\* _normalize_timeout(timeout)
NormalizeTimeout ==
  /\ op = "input"
  /\ args.vals = <<>>
  /\ Becomes("normalize_timeout", args,
            RetVal(PyInt(normalize_timeout(default_timeout, args.timeout))),
            <<>>, store, written)

NextCodec == DumpObject \/ LoadObject \/ NormalizeTimeout

SpecCodec == InitCodec /\ [][NextCodec]_vars

(***************************************************************************)
(* Properties of the codec and of the timeout normalisation (SpecCodec).   *)
(***************************************************************************)
\* the argument of the last load_object call
LoadInput == args.vals[1]

Tagged(b) == b # <<>> /\ Head(b) = "!"

\* C1: round trip of the codec.  Whenever load_object is applied to what
\* dump_object returned for a value v (an integer, a boolean, None, a byte
\* string that looks like an integer or starts with '!'), it returns v.
RoundTrip ==
  [][(op = "dump_object" /\ op' = "load_object") => result' = RetVal(args.vals[1])]_vars

\* C1 witness: b"42" was dumped through the tagged path and loaded back
RoundTripWitness ==
  /\ op = "load_object"
  /\ LoadInput = PyBytes(dump_object(PyBytes(<<"4", "2">>)))
  /\ Tagged(LoadInput.s)
  /\ result = RetVal(PyBytes(<<"4", "2">>))

\* C2: load_object never raises.  For None it returns None, and for every
\* tagged byte string whose remainder the unpickler rejects it returns None.
LoadObjectNeverRaises ==
  op = "load_object" =>
    /\ result.k = "ret"
    /\ LoadInput = PyNone => result = RetVal(PyNone)
    /\ (/\ LoadInput.t = "bytes"
        /\ Tagged(LoadInput.s)
        /\ pickle_loads(Tail(LoadInput.s)).k = "raise") => result = RetVal(PyNone)

\* ASCII decimal digits with an optional leading '-'
IsIntegerText(b) ==
  LET body == IF b # <<>> /\ Head(b) = "-" THEN Tail(b) ELSE b
  IN  body # <<>> /\ \A i \in 1..Len(body) : body[i] \in Digits

\* C3: decoding follows the three wire shapes.  For an untagged byte string
\* load_object returns an integer exactly when the bytes are decimal digits
\* with an optional leading '-', and returns every other untagged byte
\* string unchanged.
DecodeWireShapes ==
  (op = "load_object" /\ LoadInput.t = "bytes" /\ ~Tagged(LoadInput.s)) =>
    /\ result.k = "ret"
    /\ result.v[1].t = "int" <=> IsIntegerText(LoadInput.s)
    /\ ~IsIntegerText(LoadInput.s) => result = RetVal(LoadInput)

\* the no-expiry sentinel for 0, every other timeout as it is
Sentinel(n) == IF n = 0 THEN -1 ELSE n

\* C4: timeout normalisation.  _normalize_timeout(None) is what
\* _normalize_timeout(default_timeout) is, _normalize_timeout(0) is -1,
\* _normalize_timeout(N) is N for positive N, and the call changes no state.
NormalizeTimeoutLaw ==
  [][op' = "normalize_timeout" =>
       /\ result' = RetVal(PyInt(IF args.timeout.given
                                 THEN Sentinel(args.timeout.n)
                                 ELSE Sentinel(default_timeout)))
       /\ UNCHANGED <<store, key_prefix, default_timeout, written>>]_vars

\* C4 witness: the timeout was omitted on a backend whose default is 0
NormalizeTimeoutWitness ==
  /\ op = "normalize_timeout"
  /\ ~args.timeout.given
  /\ default_timeout = 0
  /\ result = RetVal(PyInt(-1))

(***************************************************************************)
(* Properties of the cache operations (Spec).                              *)
(***************************************************************************)
SingleKeyOps == {"get", "set", "add", "delete", "has", "inc", "dec"}
ManyKeyOps == {"get_many", "delete_many"}
KeyedOps == SingleKeyOps \cup ManyKeyOps \cup {"set_many"}

\* the physical keys of the namespace that belong to the call's logical keys
Namespaced(keys) == [i \in 1..Len(keys) |-> key_prefix \o keys[i]]

ReadYourWrite ==
  \A k \in LogicalKeys :
    written[k].live =>
      /\ (key_prefix \o k) \in DOMAIN store
      /\ store[key_prefix \o k].val = dump_object(written[k].v)
      /\ (op = "get" /\ args.keys = <<k>>) => result = RetVal(written[k].v)

\* C6 witness: a get that follows a set of a tagged value under a prefix
ReadYourWriteWitness ==
  /\ op = "get"
  /\ key_prefix = <<"p", ":">>
  /\ written[args.keys[1]] = Live(PyBool(TRUE))
  /\ result = RetVal(PyBool(TRUE))

\* what a reader is to see of the entry under physical key pk: absent when
\* the key is missing or its payload cannot be decoded
Decoded(pk) ==
  LET r == load_object(redis_get(store, pk))
  IN  IF r.k = "ret" THEN r.v ELSE PyNone

\* C7: get_many(k1..kn) returns exactly n results in the order of the keys,
\* whatever mix of present, missing and corrupted entries it meets; position
\* i holds the decoded value of key_prefix + ki, or absent.
GetManyShape ==
  op = "get_many" =>
    /\ result.k = "ret"
    /\ result.list
    /\ Len(result.v) = Len(args.keys)
    /\ \A i \in 1..Len(args.keys) : result.v[i] = Decoded(key_prefix \o args.keys[i])

\* C8: set_many performs exactly one store write per entry of the mapping,
\* in the mapping's order and all with the same normalized timeout, and
\* returns one acknowledgement per entry; for the empty mapping it returns
\* the empty list and writes nothing.
SetManyWrites ==
  [][op' = "set_many" =>
       LET n == Len(args'.keys)
           t == IF args'.timeout.given THEN Sentinel(args'.timeout.n)
                ELSE Sentinel(default_timeout)
       IN  /\ Len(calls') = n
           /\ \A i \in 1..n :
                /\ calls'[i].cmd = (IF t = -1 THEN "SET" ELSE "SETEX")
                /\ calls'[i].keys = <<key_prefix \o args'.keys[i]>>
                /\ calls'[i].value = dump_object(args'.vals[i])
                /\ calls'[i].time = t
                /\ store'[key_prefix \o args'.keys[i]] =
                     Entry(dump_object(args'.vals[i]), t)
           /\ result' = RetList([i \in 1..n |-> PyBool(TRUE)])
           /\ n = 0 => (calls' = <<>> /\ result' = RetList(<<>>) /\ store' = store)]_vars

\* C8 witness: a mapping of two entries written with an expiry
SetManyWritesWitness ==
  /\ op = "set_many"
  /\ Len(args.keys) = 2
  /\ Len(calls) = 2
  /\ calls[1].cmd = "SETEX"
  /\ result = RetList(<<PyBool(TRUE), PyBool(TRUE)>>)

\* C9: delete_many with no key returns None, sends nothing and leaves the
\* store as it is; with one or more keys it sends one DEL of the prefixed
\* keys and returns the number of keys it removed.
DeleteManyEffect ==
  [][op' = "delete_many" =>
       IF args'.keys = <<>>
       THEN result' = RetVal(PyNone) /\ calls' = <<>> /\ store' = store
       ELSE LET pks == Range(Namespaced(args'.keys))
            IN  /\ calls' = <<Call("DEL", Namespaced(args'.keys), <<>>, 0)>>
                /\ result' = RetVal(PyInt(Cardinality(pks \cap DOMAIN store)))
                /\ DOMAIN store' = (DOMAIN store) \ pks
                /\ \A pk \in DOMAIN store' : store'[pk] = store[pk]]_vars

\* C9 witness: of two keys deleted, one existed
DeleteManyWitness ==
  /\ op = "delete_many"
  /\ Len(args.keys) = 2
  /\ args.keys[1] # args.keys[2]
  /\ result = RetVal(PyInt(1))

\* C10: add on a key that is present returns false, leaves the value and
\* the ttl of the entry as they are, and sends no EXPIRE.
AddOnPresent ==
  [][(op' = "add" /\ (key_prefix \o args'.keys[1]) \in DOMAIN store) =>
       /\ result' = RetVal(PyBool(FALSE))
       /\ store' = store
       /\ \A i \in 1..Len(calls') : calls'[i].cmd # "EXPIRE"]_vars

\* C10 witness: add with timeout 0 refused on an entry that has an expiry
AddOnPresentWitness ==
  /\ op = "add"
  /\ args.timeout = TimeoutOf(0)
  /\ result = RetVal(PyBool(FALSE))
  /\ (key_prefix \o args.keys[1]) \in DOMAIN store
  /\ store[key_prefix \o args.keys[1]].ttl > 0

\* the integers a counter of the model can hold
CountRange == (0 - MaxCount)..MaxCount

Effective(timeout) == IF timeout.given THEN timeout.n ELSE default_timeout

\* C12: expiry of set and set_many.  With an effective timeout of 0 every
\* entry is written with a plain SET and has no expiry, and the passing of
\* time neither removes nor changes it, so the value set stays readable;
\* with a positive effective timeout N the entry is written with SETEX and
\* N seconds to live, every second takes one off, the entry is gone when
\* they are used up, and get of a missing entry returns absent.
SetExpiry ==
  [][/\ (op' \in {"set", "set_many"} /\ result'.k = "ret") =>
          \A i \in 1..Len(args'.keys) :
             LET pk == PhysKey(key_prefix, args'.keys[i])
                 t == Effective(args'.timeout)
             IN  /\ t = 0 => /\ calls'[i].cmd = "SET"
                             /\ store'[pk].ttl = NoExpiry
                 /\ t > 0 => /\ calls'[i].cmd = "SETEX"
                             /\ store'[pk].ttl = t
     /\ Tick =>
          /\ \A pk \in DOMAIN store :
                /\ store[pk].ttl = NoExpiry =>
                     pk \in DOMAIN store' /\ store'[pk] = store[pk]
                /\ store[pk].ttl = 1 => pk \notin DOMAIN store'
                /\ store[pk].ttl > 1 =>
                     /\ pk \in DOMAIN store'
                     /\ store'[pk] = Entry(store[pk].val, store[pk].ttl - 1)
          /\ \A k \in LogicalKeys :
                (written[k].live /\ store[PhysKey(key_prefix, k)].ttl = NoExpiry)
                   => written'[k] = written[k]
     /\ (op' = "get" /\ PhysKey(key_prefix, args'.keys[1]) \notin DOMAIN store)
          => result' = RetVal(PyNone)]_vars

\* C12 witness: a set that omits the timeout on a backend whose default is 0
\* has written an entry without expiry next to one that is about to expire
SetExpiryWitness ==
  /\ op = "set"
  /\ ~args.timeout.given
  /\ default_timeout = 0
  /\ calls[1].cmd = "SET"
  /\ store[PhysKey(key_prefix, args.keys[1])].ttl = NoExpiry
  /\ \E pk \in DOMAIN store : store[pk].ttl = 1

\* C13: a timeout of 0 means never expire for add.  add on an absent key
\* with an effective timeout of 0 returns true and leaves the key present
\* with the encoded value and no expiry.
AddNeverExpires ==
  [][LET pk == PhysKey(key_prefix, args'.keys[1])
     IN  (op' = "add" /\ pk \notin DOMAIN store /\ Effective(args'.timeout) = 0) =>
            /\ result' = RetVal(PyBool(TRUE))
            /\ pk \in DOMAIN store'
            /\ store'[pk] = Entry(dump_object(args'.vals[1]), NoExpiry)]_vars

\* C17: inc and dec on a payload that is not plain integer text.  The call
\* raises the store's error, sends INCRBY once and nothing else, and the
\* store keeps every value and every ttl.
IncOnNonInteger ==
  [][LET pk == PhysKey(key_prefix, args'.keys[1])
     IN  (/\ op' \in {"inc", "dec"}
          /\ pk \in DOMAIN store
          /\ ~IsIntegerText(store[pk].val)) =>
            /\ result' = Raised("ResponseError")
            /\ Len(calls') = 1
            /\ calls'[1].cmd = "INCRBY"
            /\ store' = store
            /\ written' = written]_vars

\* C17 witness: inc refused on a tagged payload that has an expiry
IncOnNonIntegerWitness ==
  /\ op = "inc"
  /\ result = Raised("ResponseError")
  /\ Tagged(store[PhysKey(key_prefix, args.keys[1])].val)
  /\ store[PhysKey(key_prefix, args.keys[1])].ttl = 1

\* C20: inc and dec set no expiry.  They send INCRBY and nothing else; an
\* existing integer entry keeps its ttl, and an absent key becomes an entry
\* that holds +delta (inc) or -delta (dec) without expiry, whatever
\* default_timeout is.
IncNoExpiry ==
  [][op' \in {"inc", "dec"} =>
       LET pk == PhysKey(key_prefix, args'.keys[1])
           amount == IF op' = "inc" THEN args'.delta ELSE 0 - args'.delta
       IN  /\ Len(calls') = 1
           /\ calls'[1].cmd = "INCRBY"
           /\ result'.k = "ret" =>
                /\ pk \in DOMAIN store => store'[pk].ttl = store[pk].ttl
                /\ pk \notin DOMAIN store =>
                     store'[pk] = Entry(IntStr(amount), NoExpiry)]_vars

\* C20 witness: dec has counted down an entry that keeps its expiry on a
\* backend whose default timeout is 0
IncNoExpiryWitness ==
  /\ op = "dec"
  /\ default_timeout = 0
  /\ result.k = "ret"
  /\ store[PhysKey(key_prefix, args.keys[1])].ttl = 1

\* the key k starts with the prefix
StartsWith(k, prefix) ==
  Len(k) >= Len(prefix) /\ SubSeq(k, 1, Len(prefix)) = prefix

\* C14: clear of a namespace.  With a non-empty key prefix, whatever its
\* characters, clear removes every key of the store that starts with the
\* prefix, leaves every other key as it was, and returns the number of keys
\* it removed.
ClearNamespace ==
  [][(op' = "clear" /\ key_prefix # <<>>) =>
       LET mine == {k \in DOMAIN store : StartsWith(k, key_prefix)}
       IN  /\ DOMAIN store' = (DOMAIN store) \ mine
           /\ \A k \in DOMAIN store' : store'[k] = store[k]
           /\ result' = RetVal(PyInt(Cardinality(mine)))]_vars

\* what a batch leaves in the store when the commands at `refused` failed:
\* the other entries are written, the refused keys are as they were
BatchApplied(mapping, timeout, refused) ==
  \A i \in 1..Len(mapping) :
     LET pk == PhysKey(key_prefix, mapping[i][1])
     IN  IF i \in refused
         THEN IF pk \in DOMAIN store
              THEN pk \in DOMAIN store' /\ store'[pk] = store[pk]
              ELSE pk \notin DOMAIN store'
         ELSE /\ pk \in DOMAIN store'
              /\ store'[pk] = Entry(dump_object(mapping[i][2]),
                                    Sentinel(Effective(timeout)))

ConstructionUsable ==
  /\ op = "__init__" =>
        \/ result.k = "raise" /\ result.exc \in {"ValueError", "RuntimeError"}
        \/ result.k = "ret" /\ client
  /\ op \in KeyedOps => result # Raised("AttributeError")

\* the callers whose SETNX created the key
Creators == {x \in Callers : adds[x].created}

\* C18: concurrent add on an absent key.  When the callers that add the
\* same absent key all use positive timeouts and nothing else touches the
\* key, at most one SETNX creates the key, only that caller's add returns
\* true, and the store holds that caller's value.
AddRaceOneWinner ==
  (\A x \in Callers : adds[x].pc # "start" => adds[x].t > 0) =>
     /\ Cardinality(Creators) <= 1
     /\ \A x \in Callers :
           /\ (adds[x].pc = "done" /\ adds[x].ret) => x \in Creators
           /\ (adds[x].pc = "done" /\ x \in Creators) => adds[x].ret
           /\ x \in Creators =>
                /\ adds[x].pk \in DOMAIN store
                /\ store[adds[x].pk].val = dump_object(adds[x].value)

\* C18 witness: every caller has finished its add, one got true and
\* another one false
AddRaceOneWinnerWitness ==
  /\ \A x \in Callers : adds[x].pc = "done" /\ adds[x].t > 0
  /\ \E x, y \in Callers :
        /\ adds[x].ret
        /\ ~adds[y].ret
        /\ adds[x].value # adds[y].value

\* C19: the EXPIRE of add and the calls of other callers.  Under every
\* interleaving with set and delete of other callers on the key, the EXPIRE
\* step of add changes the store only when the entry under the key is still
\* the one its own SETNX created.
AddExpireOwnEntry ==
  [][\A x \in Callers :
        (adds[x].pc = "expire" /\ adds'[x].pc = "done" /\ store' # store)
           => adds[x].mine]_vars

====
